---------------------------- MODULE Spec2Model ----------------------------
(***************************************************************************)
(* A model of decrepit.py: the version-resolution engine that scrapes the *)
(* packaged rustc version of several distributions.  Strings that the     *)
(* program parses or formats are sequences of one-character strings;      *)
(* remote documents are abstracted to what the program's XPath and        *)
(* regular expressions find in them.  An exception is a result value.     *)
(***************************************************************************)
EXTENDS Integers, Sequences, FiniteSets, TLC

(***************************************************************************)
(* Python values                                                           *)
(***************************************************************************)
\* Python's None, where the program handles it next to strings.
PyNone == "<None>"

\* src/decrepit.py:53
ROLLING == "(rolling)"

Digits == {"0", "1", "2", "3", "4", "5", "6", "7", "8", "9"}

DigitVal(c) ==
    CASE c = "0" -> 0 [] c = "1" -> 1 [] c = "2" -> 2 [] c = "3" -> 3
      [] c = "4" -> 4 [] c = "5" -> 5 [] c = "6" -> 6 [] c = "7" -> 7
      [] c = "8" -> 8 [] c = "9" -> 9

DigitChar(n) ==
    CASE n = 0 -> "0" [] n = 1 -> "1" [] n = 2 -> "2" [] n = 3 -> "3"
      [] n = 4 -> "4" [] n = 5 -> "5" [] n = 6 -> "6" [] n = 7 -> "7"
      [] n = 8 -> "8" [] n = 9 -> "9"

\* The longest prefix of s made of digits: what a greedy \d+ consumes.
RECURSIVE DigitPrefix(_)
DigitPrefix(s) ==
    IF s = <<>> \/ Head(s) \notin Digits THEN <<>>
    ELSE <<Head(s)>> \o DigitPrefix(Tail(s))

\* int(s) for a string of digits.
RECURSIVE StrToInt(_)
StrToInt(ds) ==
    IF ds = <<>> THEN 0
    ELSE 10 * StrToInt(SubSeq(ds, 1, Len(ds) - 1)) + DigitVal(ds[Len(ds)])

\* '%d' % n for n >= 0.
RECURSIVE IntToStr(_)
IntToStr(n) ==
    IF n < 10 THEN <<DigitChar(n)>>
    ELSE IntToStr(n \div 10) \o <<DigitChar(n % 10)>>

Drop(s, k) == SubSeq(s, k + 1, Len(s))

(***************************************************************************)
(* Results of a call: a value, or an exception that left the call.        *)
(***************************************************************************)
Ok(v) == [exc |-> "none", v |-> v]
Raise(e) == [exc |-> e, v |-> <<>>]

(***************************************************************************)
(* Version normalizer                                                      *)
(***************************************************************************)
\* RE_VER.match(ver): (?P<ma>\d+)[.](?P<mi>\d+)([.](?P<re>\d+)) anchored at
\* the start of ver.  ok says whether it matched; the groups are strings of
\* digits.
RE_VER_match(ver) ==
    LET ma == DigitPrefix(ver)
        r1 == Drop(ver, Len(ma))
        mi == IF r1 # <<>> /\ Head(r1) = "." THEN DigitPrefix(Tail(r1)) ELSE <<>>
        r2 == IF r1 # <<>> THEN Drop(Tail(r1), Len(mi)) ELSE <<>>
        re == IF r2 # <<>> /\ Head(r2) = "." THEN DigitPrefix(Tail(r2)) ELSE <<>>
    IN  [ok |-> ma # <<>> /\ mi # <<>> /\ re # <<>>, ma |-> ma, mi |-> mi, re |-> re]

\* The plausible slip of reading the groups in the wrong order.
parse_semver_swapped(ver) ==
    LET m == RE_VER_match(ver)
    IN  IF ~m.ok THEN Raise("AttributeError")
        ELSE Ok(<<StrToInt(m.mi), StrToInt(m.ma), StrToInt(m.re)>>)

parse_semver(ver) ==
    LET m == RE_VER_match(ver)
    IN  IF ~m.ok THEN Raise("AttributeError")
        ELSE Ok(<<StrToInt(m.ma), StrToInt(m.mi), StrToInt(m.re)>>)

\* The slip of formatting two components only.
fmt_ver_short(ver) ==
    IntToStr(ver[1]) \o <<".">> \o IntToStr(ver[2])

fmt_ver(ver) ==
    IntToStr(ver[1]) \o <<".">> \o IntToStr(ver[2]) \o <<".">> \o IntToStr(ver[3])

\* The version strings remote documents carry in this model.
S_0_0_0 == <<"0", ".", "0", ".", "0">>
S_1_2_0 == <<"1", ".", "2", ".", "0">>
S_1_2_3 == <<"1", ".", "2", ".", "3">>
S_1_10_0 == <<"1", ".", "1", "0", ".", "0">>
S_3_1_4 == <<"3", ".", "1", ".", "4">>

\* parse_semver('0.0.0'), the sentinel of a failed resolution.
Sentinel == parse_semver(S_0_0_0).v

(***************************************************************************)
(* Source definition table                                                 *)
(***************************************************************************)
\* A dict of DISTROS: the keys it has and their values.  A url is the site
\* it names and whether the template holds a {release} placeholder.
ScrapeRule(fields) == [kind |-> "rule", fields |-> fields]
Alias(target) == [kind |-> "alias", target |-> target]
CustomResolver(fn) == [kind |-> "custom", fn |-> fn]

UrlTemplate(site, placeholder) == [site |-> site, placeholder |-> placeholder]

DISTROS ==
    [d \in {"arch", "debian", "debian-testing", "debian-unstable", "fedora",
            "fedora-latest", "freebsd", "freebsd-latest", "nixos", "openbsd",
            "openbsd-latest", "opensuse", "ubuntu", "ubuntu-latest"} |->
        CASE d = "arch" ->
                ScrapeRule("url" :> UrlTemplate("archlinux", FALSE)
                        @@ "xpath" :> "//h2/text()"
                        @@ "re" :> "rust N:V")
          [] d = "debian" ->
                ScrapeRule("url" :> UrlTemplate("debian", TRUE)
                        @@ "xpath" :> "//h1/text()"
                        @@ "re" :> "rustc (V")
          [] d = "debian-testing" -> Alias("debian")
          [] d = "debian-unstable" -> Alias("debian")
          [] d = "fedora" -> CustomResolver("get_fedora")
          [] d = "fedora-latest" -> Alias("fedora")
          [] d = "freebsd" -> CustomResolver("get_freebsd")
          [] d = "freebsd-latest" -> Alias("freebsd")
          [] d = "nixos" -> CustomResolver("get_nixos")
          [] d = "openbsd" -> CustomResolver("get_openbsd")
          [] d = "openbsd-latest" -> Alias("openbsd")
          [] d = "opensuse" ->
                ScrapeRule("url" :> UrlTemplate("opensuse", TRUE)
                        @@ "xpath" :> "//pre/text()"
                        @@ "re" :> "Version: V")
          [] d = "ubuntu" ->
                ScrapeRule("url" :> UrlTemplate("ubuntu", TRUE)
                        @@ "inherit" :> "debian")
          [] d = "ubuntu-latest" -> Alias("ubuntu")]

\* src/decrepit.py:93
SLOW_DISTROS == {"nixos"}

(***************************************************************************)
(* The remote world and the cache files                                    *)
(***************************************************************************)
\* A URL the program requests: the site, the release (or tag) and the
\* revision formatted into it ("" where the URL has none).
Url(site, rel, rev) == [site |-> site, rel |-> rel, rev |-> rev]

NetErr == [kind |-> "neterr"]

\* An HTML page: x is the XPath that selects something in it ("" when the
\* page has no such node), r the regular expression the selected text
\* matches ("" when none does), ver the text of its version group.
Html(x, r, ver) == [kind |-> "html", x |-> x, r |-> r, ver |-> ver]

\* A svnweb/cvsweb directory listing: rev is the revision shown for the
\* Makefile ("" when the listing has no such row).
Listing(rev) == [kind |-> "listing", rev |-> rev]

\* A Makefile: ver is what the version-declaration regex captures (<<>>
\* when the file has no such line).
Makefile(ver) == [kind |-> "makefile", ver |-> ver]

\* The Fedora JSON answer: rows maps a release to its row; a row says
\* whether it is there and what the regex captures in its stable_version
\* (<<>> when it does not match).
Row(there, ver) == [there |-> there, ver |-> ver]
Json(rows) == [kind |-> "json", rows |-> rows]

\* The NixOS index: the etag header (PyNone when the server sends none),
\* whether reading the body succeeds, and the body.  A payload is named by
\* the rustc version its package name carries (<<>> when it cannot be
\* decompressed, parsed or matched).
Gz(etag, bodyok, body) == [kind |-> "gz", etag |-> etag, bodyok |-> bodyok, body |-> body]

\* urllib.request.urlopen(url) against the world w: a URL the world does
\* not serve answers with an HTTP error.
urlopen(w, url) == IF url \in DOMAIN w THEN w[url] ELSE NetErr

\* The two cache files in the temporary directory.
File(there, data) == [there |-> there, data |-> data]
Files(etag, gz) == [etag |-> etag, gz |-> gz]
NoFiles == Files(File(FALSE, ""), File(FALSE, <<>>))

\* What a resolver call gives back: the exception that left it ("none"
\* when it returned v), the URLs it opened in order, the cache files as it
\* leaves them, and how many times it read the index body.
Returned(v, log, files, dl) ==
    [exc |-> "none", v |-> v, log |-> log, files |-> files, dl |-> dl, caught |-> "none"]
Raised(e, log, files, dl) ==
    [exc |-> e, v |-> <<>>, log |-> log, files |-> files, dl |-> dl, caught |-> "none"]

\* return parse_semver(ver) at the end of a resolver.
ReturnParsed(ver, log, files, dl) ==
    LET p == parse_semver(ver)
    IN  IF p.exc # "none" THEN Raised(p.exc, log, files, dl)
        ELSE Returned(p.v, log, files, dl)

\* An environment: the world and the cache files a call starts with.
Env(w, files) == [w |-> w, files |-> files]

(***************************************************************************)
(* Custom resolvers                                                        *)
(***************************************************************************)
\* `source in r.get('release')`: the release argument names the row.
InRelease(source, release) == source = release

get_fedora(source, env) ==
    LET URL == Url("fedora", "", "")
        log == <<URL>>
        resp == urlopen(env.w, URL)
    IN  IF resp.kind = "neterr" THEN Raised("URLError", log, env.files, 0)
        ELSE IF resp.kind # "json" THEN Raised("ValueError", log, env.files, 0)
        ELSE LET there == {k \in DOMAIN resp.rows : resp.rows[k].there}
                 releases == {k \in there : InRelease(source, k)}
             IN  IF source = PyNone /\ there # {}
                 THEN Raised("TypeError", log, env.files, 0)
                 ELSE IF releases = {}
                 THEN Raised("Exception", log, env.files, 0)
                 ELSE LET ver == resp.rows[CHOOSE k \in releases : TRUE].ver
                      IN  IF ver = <<>>
                          THEN Raised("AttributeError", log, env.files, 0)
                          ELSE ReturnParsed(ver, log, env.files, 0)

\* '{rel}'.format(rel=source): None formats as 'None'.
FormatArg(source) == IF source = PyNone THEN "None" ELSE source

\* The slip of asking for the newest revision instead of the listed one.
RevisionUrl_head(site, rel, rev) == Url(site, rel, "HEAD")

\* The slip of asking for the listing a second time.
RevisionUrl_listing(site, rel, rev) == Url(site, rel, "")

\* The second URL of a two-step scrape, parameterized by the revision.
RevisionUrl(site, rel, rev) == Url(site, rel, rev)

\* The body shared by get_freebsd and get_openbsd once the listing URL is
\* formatted: fetch the listing, take the Makefile's revision, fetch that
\* revision, search the version declaration.
TwoStep(site, rel, env) ==
    LET pkg_url == Url(site, rel, "")
        pkg_page == urlopen(env.w, pkg_url)
    IN  IF pkg_page.kind = "neterr"
        THEN Raised("URLError", <<pkg_url>>, env.files, 0)
        ELSE IF pkg_page.kind # "listing"
        THEN Raised("IndexError", <<pkg_url>>, env.files, 0)
        ELSE IF pkg_page.rev = ""
        THEN Raised("IndexError", <<pkg_url>>, env.files, 0)
        ELSE LET makefile_url == RevisionUrl(site, rel, pkg_page.rev)
                 log == <<pkg_url, makefile_url>>
                 makefile_page == urlopen(env.w, makefile_url)
             IN  IF makefile_page.kind = "neterr"
                 THEN Raised("URLError", log, env.files, 0)
                 ELSE IF makefile_page.kind # "makefile" \/ makefile_page.ver = <<>>
                 THEN Raised("AttributeError", log, env.files, 0)
                 ELSE ReturnParsed(makefile_page.ver, log, env.files, 0)

get_freebsd(source, env) == TwoStep("freebsd", FormatArg(source), env)

\* source.replace('.', '_') for the releases of this model.
ReplaceDots(source) ==
    CASE source = "6.0" -> "6_0"
      [] source = "6.1" -> "6_1"
      [] OTHER -> source

get_openbsd(source, env) ==
    IF source = PyNone THEN Raised("AttributeError", <<>>, env.files, 0)
    ELSE TwoStep("openbsd", ReplaceDots(source), env)

\* The slip of trusting any payload file on disk, whatever the etag.
UseCache_always(cur_etag, last_etag) == TRUE

\* if cur_etag == last_etag: the cached payload is tried.
UseCache(cur_etag, last_etag) == cur_etag = last_etag

get_nixos(source, env) ==
    IF source # ROLLING THEN Raised("AssertionError", <<>>, env.files, 0)
    ELSE
    LET URL == Url("nixos", "", "")
        log == <<URL>>
        last_etag == IF env.files.etag.there THEN env.files.etag.data ELSE PyNone
        req == urlopen(env.w, URL)
    IN  IF req.kind = "neterr" THEN Raised("URLError", log, env.files, 0)
        ELSE IF req.kind # "gz" THEN Raised("ValueError", log, env.files, 0)
        ELSE
        LET cur_etag == req.etag
            cached == UseCache(cur_etag, last_etag) /\ env.files.gz.there
        IN  IF cached
            THEN IF env.files.gz.data = <<>>
                 THEN Raised("OSError", log, env.files, 0)
                 ELSE ReturnParsed(env.files.gz.data, log, env.files, 0)
            ELSE IF ~req.bodyok THEN Raised("URLError", log, env.files, 1)
            ELSE IF cur_etag = PyNone
            THEN \* open(etag_path, 'wb') has truncated the file when
                 \* cur_etag.encode raises.
                 Raised("AttributeError", log,
                        Files(File(TRUE, ""), env.files.gz), 1)
            ELSE LET written == Files(File(TRUE, cur_etag), File(TRUE, req.body))
                 IN  IF req.body = <<>>
                     THEN Raised("OSError", log, written, 1)
                     ELSE ReturnParsed(req.body, log, written, 1)

(***************************************************************************)
(* Generic scraper                                                         *)
(***************************************************************************)
\* The walk does not terminate within this many steps only if it never does.
MaxDepth == 16

\* The slip of letting the parent's fields win over the child's.
Merge_parent_wins(parent, child) ==
    [k \in DOMAIN parent \cup (DOMAIN child \ {"inherit"}) |->
        IF k \in DOMAIN parent THEN parent[k] ELSE child[k]]

\* new_defin = DISTROS[inherit].copy();
\* new_defin.update({k:v for k,v in defin.items() if k != 'inherit'})
Merge(parent, child) ==
    [k \in DOMAIN parent \cup (DOMAIN child \ {"inherit"}) |->
        IF k \in DOMAIN child \ {"inherit"} THEN child[k] ELSE parent[k]]

\* while 'inherit' in defin: ...  The loop has no bound of its own: fuel is
\* what is left of MaxDepth, and "hang" the outcome of a walk that never
\* ends.
RECURSIVE InheritWalk(_, _, _)
InheritWalk(T, defin, fuel) ==
    IF "inherit" \notin DOMAIN defin THEN [exc |-> "none", defin |-> defin]
    ELSE IF fuel = 0 THEN [exc |-> "hang", defin |-> defin]
    ELSE LET inherit == defin["inherit"]
         IN  IF inherit \notin DOMAIN T THEN [exc |-> "KeyError", defin |-> defin]
             ELSE IF T[inherit].kind # "rule"
             THEN [exc |-> "AttributeError", defin |-> defin]
             ELSE InheritWalk(T, Merge(T[inherit].fields, defin), fuel - 1)

\* The slip of leaving out the `or '0.0.0'` of an empty group.
VersionText_no_fallback(m, group) == IF m THEN group ELSE S_0_0_0

\* Lines 473-476: m.group('version') or '0.0.0' when the regex matched,
\* '0.0.0' when it did not.
VersionText(m, group) == IF m /\ group # <<>> THEN group ELSE S_0_0_0

get_scrape(T, distro, defin0, source, env) ==
    LET walk == InheritWalk(T, defin0, MaxDepth)
        defin == walk.defin
    IN  IF walk.exc # "none" THEN Raised(walk.exc, <<>>, env.files, 0)
        ELSE IF "url" \notin DOMAIN defin
                \/ (defin["url"].placeholder /\ source = PyNone)
                \/ "xpath" \notin DOMAIN defin
                \/ "re" \notin DOMAIN defin
        THEN Raised("KeyError", <<>>, env.files, 0)
        ELSE
        LET url == Url(defin["url"].site,
                       IF defin["url"].placeholder THEN source ELSE "", "")
            xpath == defin["xpath"]
            regex == defin["re"]
            log == <<url>>
            page == urlopen(env.w, url)
        IN  IF page.kind = "neterr" THEN Raised("URLError", log, env.files, 0)
            ELSE IF page.kind # "html" \/ page.x # xpath
            THEN Raised("IndexError", log, env.files, 0)
            ELSE LET m == page.r = regex
                     version == VersionText(m, page.ver)
                 IN  ReturnParsed(version, log, env.files, 0)

(***************************************************************************)
(* Dispatch engine                                                         *)
(***************************************************************************)
\* The slip of catching network errors only.
FailureBoundary_narrow(r) ==
    IF r.exc = "URLError"
    THEN [r EXCEPT !.exc = "none", !.v = Sentinel, !.caught = r.exc]
    ELSE r

\* The slip of letting a failed assertion through.
FailureBoundary_loud(r) ==
    IF r.exc \notin {"none", "hang", "AssertionError"}
    THEN [r EXCEPT !.exc = "none", !.v = Sentinel, !.caught = r.exc]
    ELSE r

\* except: ... return parse_semver('0.0.0').  Whatever was raised inside
\* the try is swallowed (caught names it); a call that never returns is
\* not an exception.
FailureBoundary(r) ==
    IF r.exc \notin {"none", "hang"}
    THEN [r EXCEPT !.exc = "none", !.v = Sentinel, !.caught = r.exc]
    ELSE r

\* The slip of dropping the release argument when following an alias.
AliasArg_dropped(arg) == PyNone

\* get_dispatch(defin, arg): an alias is resolved with the same argument.
AliasArg(arg) == arg

\* defin(arg) for a function entry of the table.
CallCustom(fn, arg, env) ==
    CASE fn = "get_fedora" -> get_fedora(arg, env)
      [] fn = "get_freebsd" -> get_freebsd(arg, env)
      [] fn = "get_openbsd" -> get_openbsd(arg, env)
      [] fn = "get_nixos" -> get_nixos(arg, env)

\* depth is what is left of the interpreter's recursion limit.
RECURSIVE get_dispatch_at(_, _, _, _, _)
get_dispatch_at(T, distro, arg, env, depth) ==
    IF depth = 0 THEN Raised("RecursionError", <<>>, env.files, 0)
    ELSE IF distro \notin DOMAIN T THEN Raised("KeyError", <<>>, env.files, 0)
    ELSE LET defin == T[distro]
         IN  FailureBoundary(
                CASE defin.kind = "custom" -> CallCustom(defin.fn, arg, env)
                  [] defin.kind = "alias" ->
                        get_dispatch_at(T, defin.target, AliasArg(arg), env, depth - 1)
                  [] defin.kind = "rule" ->
                        get_scrape(T, distro, defin.fields, arg, env))

get_dispatch(T, distro, arg, env) == get_dispatch_at(T, distro, arg, env, MaxDepth)

(***************************************************************************)
(* The table as objects.  DISTROS is a module-level dict whose rule        *)
(* entries are dicts; get_scrape holds references to them.  An object      *)
(* store is the table (tab) and the dicts local to the call (loc); a      *)
(* reference names an entry of the one or an index of the other.          *)
(***************************************************************************)
Store(tab, loc) == [tab |-> tab, loc |-> loc]
TabRef(name) == [in |-> "tab", at |-> name, ix |-> 0]
LocRef(ix) == [in |-> "loc", at |-> "", ix |-> ix]

\* The dict a reference points at.
Deref(h, ref) == IF ref.in = "tab" THEN h.tab[ref.at].fields ELSE h.loc[ref.ix]

\* The slip of binding new_defin to the entry itself: no .copy().
DictCopy_alias(h, ref) == [h |-> h, ref |-> ref]

\* d.copy(): a new dict with the same items, local to the call.
DictCopy(h, ref) ==
    [h |-> Store(h.tab, Append(h.loc, Deref(h, ref))), ref |-> LocRef(Len(h.loc) + 1)]

\* d.update(items): the dict the reference points at gets the items.
DictUpdate(h, ref, items) ==
    LET old == Deref(h, ref)
        new == [k \in DOMAIN old \cup DOMAIN items |->
                    IF k \in DOMAIN items THEN items[k] ELSE old[k]]
    IN  IF ref.in = "tab"
        THEN Store([h.tab EXCEPT ![ref.at] = ScrapeRule(new)], h.loc)
        ELSE Store(h.tab, [h.loc EXCEPT ![ref.ix] = new])

\* {k:v for k,v in defin.items() if k != 'inherit'}
ItemsButInherit(defin) == [k \in DOMAIN defin \ {"inherit"} |-> defin[k]]

\* Lines 459-463 on the store: defin is a reference, DISTROS[inherit] is
\* looked up in the table as it is at that moment.
RECURSIVE InheritWalkOn(_, _, _)
InheritWalkOn(h, defin, fuel) ==
    LET d == Deref(h, defin)
    IN  IF "inherit" \notin DOMAIN d THEN [exc |-> "none", h |-> h, defin |-> defin]
        ELSE IF fuel = 0 THEN [exc |-> "hang", h |-> h, defin |-> defin]
        ELSE LET inherit == d["inherit"]
             IN  IF inherit \notin DOMAIN h.tab
                 THEN [exc |-> "KeyError", h |-> h, defin |-> defin]
                 ELSE IF h.tab[inherit].kind # "rule"
                 THEN [exc |-> "AttributeError", h |-> h, defin |-> defin]
                 ELSE LET new_defin == DictCopy(h, TabRef(inherit))
                          updated == DictUpdate(new_defin.h, new_defin.ref,
                                                ItemsButInherit(d))
                      IN  InheritWalkOn(updated, new_defin.ref, fuel - 1)

\* The table as get_scrape(distro, DISTROS[distro], source) leaves it: the
\* rest of get_scrape (lines 465-477) reads defin and writes nothing.
DistrosAfterScrape(tab, distro) ==
    InheritWalkOn(Store(tab, <<>>), TabRef(distro), MaxDepth).h.tab

\* The table as get_dispatch(distro, arg) leaves it: lines 306-313 read
\* DISTROS[distro] and pass it on.
RECURSIVE DistrosAfterDispatchAt(_, _, _)
DistrosAfterDispatchAt(tab, distro, depth) ==
    IF depth = 0 \/ distro \notin DOMAIN tab THEN tab
    ELSE LET defin == tab[distro]
         IN  CASE defin.kind = "custom" -> tab
               [] defin.kind = "alias" ->
                     DistrosAfterDispatchAt(tab, defin.target, depth - 1)
               [] defin.kind = "rule" -> DistrosAfterScrape(tab, distro)

DistrosAfterDispatch(tab, distro) == DistrosAfterDispatchAt(tab, distro, MaxDepth)

(***************************************************************************)
(* Remote documents of the model                                           *)
(***************************************************************************)
\* The XPath and the regular expression a site's pages are written for.
PageX(site) ==
    CASE site = "archlinux" -> "//h2/text()"
      [] site = "opensuse" -> "//pre/text()"
      [] OTHER -> "//h1/text()"

PageR(site) ==
    CASE site = "archlinux" -> "rust N:V"
      [] site = "opensuse" -> "Version: V"
      [] OTHER -> "rustc (V"

Page(site, ver) == Html(PageX(site), PageR(site), ver)

\* What the remote world serves when nothing is wrong.
Nominal ==
       Url("archlinux", "", "") :> Page("archlinux", S_1_10_0)
    @@ Url("debian", "jessie", "") :> Page("debian", S_1_2_3)
    @@ Url("debian", "stretch", "") :> Page("debian", S_1_10_0)
    @@ Url("debian", "sid", "") :> Page("debian", S_3_1_4)
    @@ Url("ubuntu", "xenial", "") :> Page("ubuntu", S_1_2_3)
    @@ Url("ubuntu", "yakkety", "") :> Page("ubuntu", S_1_10_0)
    @@ Url("ubuntu", "zesty", "") :> Page("ubuntu", S_1_10_0)
    @@ Url("opensuse", "42.2", "") :> Page("opensuse", S_1_2_0)
    @@ Url("fedora", "", "") :>
            Json("24" :> Row(TRUE, S_1_2_3) @@ "25" :> Row(TRUE, S_1_10_0))
    @@ Url("freebsd", "2017Q1", "") :> Listing("42")
    @@ Url("freebsd", "2017Q1", "42") :> Makefile(S_3_1_4)
    @@ Url("freebsd", "2017Q1", "43") :> Makefile(S_1_10_0)
    @@ Url("freebsd", "2017Q2", "") :> Listing("43")
    @@ Url("freebsd", "2017Q2", "42") :> Makefile(S_1_2_3)
    @@ Url("freebsd", "2017Q2", "43") :> Makefile(S_3_1_4)
    @@ Url("openbsd", "6_0", "") :> Listing("42")
    @@ Url("openbsd", "6_0", "42") :> Makefile(S_1_2_0)
    @@ Url("openbsd", "6_0", "43") :> Makefile(S_1_10_0)
    @@ Url("openbsd", "6_1", "") :> Listing("43")
    @@ Url("openbsd", "6_1", "42") :> Makefile(S_1_2_0)
    @@ Url("openbsd", "6_1", "43") :> Makefile(S_1_10_0)
    @@ Url("nixos", "", "") :> Gz("abc", TRUE, S_1_10_0)

\* The version texts a document of the model may carry.
VerTexts == {S_1_2_3, S_1_10_0}

\* What a URL may answer instead, by the kind of document it serves.
HtmlAnswers(site) ==
    {NetErr, Html("", "", <<>>), Html(PageX(site), "", <<>>)}
        \cup {Page(site, v) : v \in VerTexts}
ListingAnswers == {NetErr, Listing(""), Listing("42"), Listing("43")}
MakefileAnswers == {NetErr, Makefile(<<>>), Makefile(S_3_1_4), Makefile(S_1_2_3)}
RowAnswers == {Row(FALSE, <<>>), Row(TRUE, <<>>)} \cup {Row(TRUE, v) : v \in VerTexts}
JsonAnswers == {NetErr} \cup {Json(rows) : rows \in [{"24", "25"} -> RowAnswers]}
Etags == {PyNone, "abc", "def"}
GzAnswers ==
    {NetErr} \cup {Gz(e, FALSE, <<>>) : e \in Etags}
        \cup {Gz(e, TRUE, b) : e \in Etags, b \in {<<>>} \cup VerTexts}

Answers(url) ==
    CASE url.site \in {"archlinux", "debian", "ubuntu", "opensuse"} -> HtmlAnswers(url.site)
      [] url.site = "fedora" -> JsonAnswers
      [] url.site = "nixos" -> GzAnswers
      [] url.rev = "" -> ListingAnswers
      [] OTHER -> MakefileAnswers

\* The site whose resolver or rule a table entry ends at.
SiteOf(distro) ==
    CASE distro = "arch" -> "archlinux"
      [] distro \in {"debian", "debian-testing", "debian-unstable"} -> "debian"
      [] distro \in {"ubuntu", "ubuntu-latest"} -> "ubuntu"
      [] distro \in {"fedora", "fedora-latest"} -> "fedora"
      [] distro \in {"freebsd", "freebsd-latest"} -> "freebsd"
      [] distro \in {"openbsd", "openbsd-latest"} -> "openbsd"
      [] OTHER -> distro

\* The URLs a resolution of distro with arg may open, in any world.
Touched(distro, arg) ==
    LET site == SiteOf(distro)
    IN  CASE site \in {"archlinux", "fedora", "nixos"} -> {Url(site, "", "")}
          [] site \in {"debian", "ubuntu", "opensuse"} ->
                IF arg = PyNone THEN {} ELSE {Url(site, arg, "")}
          [] site = "freebsd" ->
                {Url(site, FormatArg(arg), rev) : rev \in {"", "42", "43"}}
          [] site = "openbsd" ->
                IF arg = PyNone THEN {}
                ELSE {Url(site, ReplaceDots(arg), rev) : rev \in {"", "42", "43"}}
          [] OTHER -> {}

\* w with the URLs of the function f answering as f says.
Override(w, f) ==
    [u \in DOMAIN w \cup DOMAIN f |-> IF u \in DOMAIN f THEN f[u] ELSE w[u]]

\* Every world that differs from Nominal on the URLs in us only.
RECURSIVE WorldsOn(_)
WorldsOn(us) ==
    IF us = {} THEN {Nominal}
    ELSE LET u == CHOOSE x \in us : TRUE
         IN  {Override(w, u :> a) : w \in WorldsOn(us \ {u}), a \in Answers(u)}

(***************************************************************************)
(* State                                                                   *)
(***************************************************************************)
VARIABLES
    world,      \* what each URL answers
    files,      \* the two cache files in the temporary directory
    call,       \* the last get_dispatch call: its inputs and what it gave
    cli,        \* the parsed command line of a run of main
    pc,         \* where main is
    distros,    \* main's distros: the requested names
    releases,   \* main's releases: the ordered dict name -> release
    tasks,      \* the (distro, arg) pairs submitted to the pool, in order
    tstate,     \* each task: "queued", "running", "done" or "cancelled"
    rets,       \* what each finished task's get_dispatch gave
    pkg_vers,   \* main's pkg_vers
    out,        \* what main printed and how it ended
    overtook,   \* history: a task has finished before one submitted earlier
    semver,     \* a version text or tuple put through the version normalizer
    race,       \* the runs of get_nixos that share the cache files, step by step
    scrape,     \* a call of get_scrape on a table of rules
    matrix,     \* a run of test-matrix.py's main loop
    heap        \* the table DISTROS as objects, over successive resolutions

mainvars == <<cli, pc, distros, releases, tasks, tstate, rets, pkg_vers, out, overtook>>
sidevars == <<semver, race, scrape, matrix, heap>>
vars == <<world, files, call, cli, pc, distros, releases, tasks, tstate, rets, pkg_vers, out, overtook, sidevars>>

\* The version normalizer is not under study.
NoSemver == [op |-> "off", s |-> <<>>, v |-> <<>>, parsed |-> Raise("none"), text |-> <<>>]
\* No run of get_nixos is followed step by step.
NoRace == <<>>
\* get_scrape is not under study.
NoScrape == [op |-> "off"]
\* test-matrix.py is not running.
NoMatrix == [at |-> "off"]
\* The table is not under observation.
NoHeap == [at |-> "off"]
NoSide ==
    /\ semver = NoSemver /\ race = NoRace /\ scrape = NoScrape
    /\ matrix = NoMatrix /\ heap = NoHeap

NoOut == [kind |-> "none", code |-> 0, text |-> <<>>, rows |-> <<>>]
NoCli == [distro_strs |-> <<>>, fast_only |-> FALSE, show_all |-> FALSE,
          list_distros |-> FALSE, as_of_date |-> 0]

\* main is not running.
NoMain ==
    /\ cli = NoCli
    /\ pc = "off"
    /\ distros = {}
    /\ releases = <<>>
    /\ tasks = <<>>
    /\ tstate = <<>>
    /\ rets = <<>>
    /\ pkg_vers = <<>>
    /\ out = NoOut
    /\ overtook = FALSE

(***************************************************************************)
(* One resolution: get_dispatch called once on a table entry, with any    *)
(* release argument, in any world, on any cache the program can have left. *)
(***************************************************************************)
\* The release arguments a call is given.
ArgsOf(distro) ==
    {PyNone, "x"} \cup
    (CASE SiteOf(distro) = "debian" -> {"jessie"}
       [] SiteOf(distro) = "ubuntu" -> {"xenial"}
       [] SiteOf(distro) = "opensuse" -> {"42.2"}
       [] SiteOf(distro) = "fedora" -> {"24", "25"}
       [] SiteOf(distro) = "freebsd" -> {"2017Q1"}
       [] SiteOf(distro) = "openbsd" -> {"6.0"}
       [] OTHER -> {ROLLING})

\* Cache files as earlier runs leave them, and a payload whose token file
\* is gone from the temporary directory or cannot be read.
CacheStates ==
    {NoFiles,
     Files(File(TRUE, "abc"), File(TRUE, S_1_2_3)),
     Files(File(TRUE, ""), File(FALSE, <<>>)),
     Files(File(FALSE, ""), File(TRUE, S_1_2_3))}

NoCall == [distro |-> "", arg |-> PyNone, before |-> NoFiles,
           ret |-> Returned(<<>>, <<>>, NoFiles, 0)]

InitResolve ==
    /\ world = Nominal
    /\ files \in CacheStates
    /\ call = NoCall
    /\ NoMain
    /\ NoSide

Resolve(distro, arg, w) ==
    LET ret == get_dispatch(DISTROS, distro, arg, Env(w, files))
    IN  /\ call = NoCall
        /\ world' = w
        /\ files' = ret.files
        /\ call' = [distro |-> distro, arg |-> arg, before |-> files, ret |-> ret]
        /\ UNCHANGED <<mainvars, sidevars>>

NextResolve ==
    \E distro \in DOMAIN DISTROS :
        \E arg \in ArgsOf(distro) :
            \E w \in WorldsOn(Touched(distro, arg)) :
                Resolve(distro, arg, w)

SpecResolve == InitResolve /\ [][NextResolve]_vars

(***************************************************************************)
(* Successive runs of the cached resolver: get_dispatch('nixos', arg) is   *)
(* called again and again, the remote index changing between the calls    *)
(* and the cache files staying on disk.                                    *)
(***************************************************************************)
InitCache ==
    /\ world = Nominal
    /\ files = NoFiles
    /\ call = NoCall
    /\ NoMain
    /\ NoSide

NixosCall(arg, answer) ==
    LET w == Override(Nominal, Url("nixos", "", "") :> answer)
        ret == get_dispatch(DISTROS, "nixos", arg, Env(w, files))
    IN  /\ world' = w
        /\ files' = ret.files
        /\ call' = [distro |-> "nixos", arg |-> arg, before |-> files, ret |-> ret]
        /\ UNCHANGED <<mainvars, sidevars>>

NextCache ==
    \E arg \in {ROLLING, "x"} :
        \E answer \in GzAnswers :
            NixosCall(arg, answer)

SpecCache == InitCache /\ [][NextCache]_vars

(***************************************************************************)
(* main: a batch run                                                       *)
(***************************************************************************)
\* src/decrepit.py:55-90.  A date 'YYYY-MM-DD' is the number YYYYMMDD: the
\* strings compare as these numbers do.  releases is the dict in the order
\* it is written.
PROFILES == <<
    [date |-> 20170414,
     releases |-> <<
        <<"arch", ROLLING>>, <<"debian", "jessie">>,
        <<"debian-testing", "stretch">>, <<"debian-unstable", "sid">>,
        <<"fedora", "24">>, <<"fedora-latest", "25">>,
        <<"freebsd", "2017Q1">>, <<"freebsd-latest", "2017Q2">>,
        <<"nixos", ROLLING>>, <<"openbsd", "6.0">>,
        <<"openbsd-latest", "6.1">>, <<"opensuse", "42.2">>,
        <<"ubuntu", "xenial">>, <<"ubuntu-latest", "zesty">> >>],
    [date |-> 20170316,
     releases |-> <<
        <<"arch", ROLLING>>, <<"debian", "jessie">>,
        <<"debian-testing", "stretch">>, <<"debian-unstable", "sid">>,
        <<"fedora", "24">>, <<"fedora-latest", "25">>,
        <<"nixos", ROLLING>>, <<"opensuse", "42.2">>,
        <<"ubuntu", "xenial">>, <<"ubuntu-latest", "yakkety">> >>] >>

\* The strings main compares, in the order Python's str comparison puts
\* them (by code point).
StrOrder == <<
    "(rolling)", "2017Q1", "2017Q2", "24", "25", "42.2", "6.0", "6.1",
    "arch", "bogus", "debian", "debian-testing", "debian-unstable",
    "fedora", "fedora-latest", "freebsd", "freebsd-latest", "jessie",
    "nixos", "openbsd", "openbsd-latest", "opensuse", "sid", "stretch",
    "ubuntu", "ubuntu-latest", "x", "xenial", "yakkety", "zesty" >>

StrRank(a) == CHOOSE i \in 1..Len(StrOrder) : StrOrder[i] = a
StrLess(a, b) == StrRank(a) < StrRank(b)

\* Python's < on tuples of integers.
RECURSIVE TupleLess(_, _)
TupleLess(a, b) ==
    IF a = <<>> THEN b # <<>>
    ELSE IF b = <<>> THEN FALSE
    ELSE IF Head(a) # Head(b) THEN Head(a) < Head(b)
    ELSE TupleLess(Tail(a), Tail(b))

\* sorted(seq, key=...): Less(a, b) says that a's key is less than b's.
\* Python's sort is stable: equal keys keep their order.
Inserted(sorted, x, Less(_, _)) ==
    LET notafter == {i \in 1..Len(sorted) : Less(x, sorted[i])}
        k == IF notafter = {} THEN Len(sorted)
             ELSE (CHOOSE i \in notafter : \A j \in notafter : i <= j) - 1
    IN  SubSeq(sorted, 1, k) \o <<x>> \o SubSeq(sorted, k + 1, Len(sorted))

Sorted(seq, Less(_, _)) ==
    LET upto[k \in 0..Len(seq)] ==
            IF k = 0 THEN <<>> ELSE Inserted(upto[k - 1], seq[k], Less)
    IN  upto[Len(seq)]

\* The values of a sequence, and a sequence without the elements failing P.
Range(seq) == {seq[i] : i \in 1..Len(seq)}

Selected(seq, kept) ==
    [k \in 1..Cardinality(kept) |->
        seq[CHOOSE i \in kept : Cardinality({j \in kept : j <= i}) = k]]

Filter(seq, P(_)) == Selected(seq, {i \in 1..Len(seq) : P(seq[i])})

\* d[k] = v on a dict kept in insertion order.
DictSet(d, k, v) ==
    IF \E i \in 1..Len(d) : d[i][1] = k
    THEN [i \in 1..Len(d) |-> IF d[i][1] = k THEN <<k, v>> ELSE d[i]]
    ELSE Append(d, <<k, v>>)

Keys(d) == {d[i][1] : i \in 1..Len(d)}

\* One `name` or `name:release` of a --distro option: rel is "" when there is
\* no colon or nothing after it.
Token(name, rel) == [name |-> name, rel |-> rel]

\* Lines 168-174: the requested names, every known distro when none is.
Requested(distro_strs) ==
    LET named == {distro_strs[i].name : i \in 1..Len(distro_strs)}
    IN  IF named = {} THEN DOMAIN DISTROS ELSE named

\* The slip of sorting the profiles oldest first.
ProfilesAsOf_oldest(as_of_date) ==
    Sorted(Filter(PROFILES, LAMBDA p : p.date <= as_of_date),
           LAMBDA p, q : p.date < q.date)

\* Lines 179-189: the profiles not more recent than the date, latest first.
ProfilesAsOf(as_of_date) ==
    Sorted(Filter(PROFILES, LAMBDA p : p.date <= as_of_date),
           LAMBDA p, q : p.date > q.date)

\* Lines 193-202: the profile's releases, then the overrides in order.
RECURSIVE Overridden(_, _)
Overridden(rel, distro_strs) ==
    IF distro_strs = <<>> THEN rel
    ELSE LET t == Head(distro_strs)
         IN  Overridden(IF t.rel # "" THEN DictSet(rel, t.name, t.rel) ELSE rel,
                        Tail(distro_strs))

\* The slip of leaving out the test of the requested names.
check_any(distro, fast_only, requested) ==
    ~(fast_only /\ distro \in SLOW_DISTROS)

\* The slip of leaving out the test of the slow distros.
check_slow_too(distro, fast_only, requested) ==
    distro \in requested

\* Lines 217-220: check, closed over fast_only and distros.
check(distro, fast_only, requested) ==
    IF fast_only /\ distro \in SLOW_DISTROS THEN FALSE
    ELSE distro \in requested

\* `unknown`, the headline when no version is known.
Unknown == <<"u", "n", "k", "n", "o", "w", "n">>

\* The slip of sorting the pairs as they are: by name first.
KeyLess_by_name(dv1, dv2) ==
    \/ StrLess(dv1[1], dv2[1])
    \/ dv1[1] = dv2[1] /\ TupleLess(dv1[2], dv2[2])

\* key = lambda dv: (dv[1], dv[0]): by version, then by name.
KeyLess(dv1, dv2) ==
    \/ TupleLess(dv1[2], dv2[2])
    \/ dv1[2] = dv2[2] /\ StrLess(dv1[1], dv2[1])

\* The slip of taking the first entry, sentinel or not.
Headline_first(pv) == (pv \o <<<<"", Unknown>>>>)[1][2]

\* Lines 271-272: vs = [v for (_, v) in pkg_vers if v != '0.0.0'] + ['unknown'];
\* vs[0].
Headline(pv) ==
    (Filter(pv, LAMBDA dv : dv[2] # S_0_0_0) \o <<<<"", Unknown>>>>)[1][2]

\* Lines 147-214: from the arguments to the pairs handed to the pool.  The
\* generator of line 234 is consumed when map() submits.
SelectProfile ==
    /\ pc = "start"
    /\ LET profiles == ProfilesAsOf(cli.as_of_date)
           ds == Requested(cli.distro_strs)
       IN  /\ distros' = ds
           /\ IF profiles = <<>>
              THEN /\ out' = [NoOut EXCEPT !.kind = "error", !.code = 1]
                   /\ pc' = "done"
                   /\ UNCHANGED <<releases, tasks, tstate, rets>>
              ELSE LET rel == Overridden(profiles[1].releases, cli.distro_strs)
                   IN  /\ releases' = rel
                       /\ IF cli.list_distros
                          THEN /\ out' = [NoOut EXCEPT
                                            !.kind = "list",
                                            !.rows = Sorted(rel, LAMBDA a, b : StrLess(a[2], b[2]))]
                               /\ pc' = "done"
                               /\ UNCHANGED <<tasks, tstate, rets>>
                          ELSE LET submitted == Filter(rel, LAMBDA da : check(da[1], cli.fast_only, ds))
                               IN  /\ tasks' = submitted
                                   /\ tstate' = [i \in 1..Len(submitted) |-> "queued"]
                                   /\ rets' = [i \in 1..Len(submitted) |-> NoCall.ret]
                                   /\ pc' = "pool"
                                   /\ out' = out
    /\ UNCHANGED <<sidevars, overtook, world, files, call, cli, pkg_vers>>

\* The pool has this many worker threads.
MaxWorkers == 2

Running == {i \in 1..Len(tasks) : tstate[i] = "running"}

\* A free worker takes the oldest queued task.
StartTask(i) ==
    /\ pc \in {"pool", "raised"}
    /\ i \in 1..Len(tasks)
    /\ tstate[i] = "queued"
    /\ \A j \in 1..(i - 1) : tstate[j] # "queued"
    /\ Cardinality(Running) < MaxWorkers
    /\ tstate' = [tstate EXCEPT ![i] = "running"]
    /\ UNCHANGED <<sidevars, overtook, world, files, call, cli, pc, distros, releases, tasks, rets, pkg_vers, out>>

\* The slip of a call that gives up once another task has left cache
\* files behind: what a task gets would depend on who finished before it.
dispatch_cache_shy(da, w, f) ==
    IF f # NoFiles /\ da[1] \notin SLOW_DISTROS
    THEN Returned(Sentinel, <<>>, f, 0)
    ELSE get_dispatch(DISTROS, da[1], da[2], Env(w, f))

\* Lines 222-228, dispatch(da) for the worker's call: get_dispatch on the
\* world and the cache files as they are.
dispatch(da, w, f) == get_dispatch(DISTROS, da[1], da[2], Env(w, f))

\* Lines 222-228, dispatch(da): the worker's call of get_dispatch returns,
\* or raises what get_dispatch let through.
FinishTask(i) ==
    /\ i \in 1..Len(tasks)
    /\ tstate[i] = "running"
    /\ LET ret == dispatch(tasks[i], world, files)
       IN  /\ ret.exc # "hang"
           /\ rets' = [rets EXCEPT ![i] = ret]
           /\ files' = ret.files
    /\ tstate' = [tstate EXCEPT ![i] = "done"]
    /\ overtook' = (overtook \/ \E j \in 1..(i - 1) : tstate[j] = "running")
    /\ UNCHANGED <<sidevars, world, call, cli, pc, distros, releases, tasks, pkg_vers, out>>

\* The tasks whose exception list(...) of lines 232-235 meets: map's
\* iterator takes the results in the order of submission.
Raising == {i \in 1..Len(tasks) : tstate[i] = "done" /\ rets[i].exc # "none"}

\* Lines 232-235, as main sees them: every result has come, in order.
Collect ==
    /\ pc = "pool"
    /\ \A i \in 1..Len(tasks) : tstate[i] = "done"
    /\ Raising = {}
    /\ pkg_vers' = [i \in 1..Len(tasks) |-> <<tasks[i][1], rets[i].v>>]
    /\ pc' = "collected"
    /\ UNCHANGED <<sidevars, overtook, world, files, call, cli, distros, releases, tasks, tstate, rets, out>>

\* Lines 232-235 when a worker's call raised: the exception leaves list(...)
\* and main, once the results before it have come; the tasks not yet
\* started are cancelled.
Abort ==
    /\ pc = "pool"
    /\ \E k \in Raising :
          /\ \A j \in 1..(k - 1) : tstate[j] = "done" /\ rets[j].exc = "none"
          /\ out' = [NoOut EXCEPT !.kind = "traceback", !.code = 1,
                                  !.rows = <<rets[k].exc>>]
    /\ tstate' = [i \in 1..Len(tasks) |->
                    IF tstate[i] = "queued" THEN "cancelled" ELSE tstate[i]]
    /\ pc' = "raised"
    /\ UNCHANGED <<sidevars, overtook, world, files, call, cli, distros, releases, tasks, rets, pkg_vers>>

\* Lines 240-244: [(d, fmt_ver(v)) for (d, v) in sorted(pkg_vers, key=...)].
Formatted(sorted) ==
    [i \in 1..Len(sorted) |-> <<sorted[i][1], fmt_ver(sorted[i][2])>>]

SortedPkgVers(pv) == Formatted(Sorted(pv, KeyLess))

\* Lines 246-272: what main prints for the sorted pkg_vers.
Printed(pv, show_all) ==
    IF Len(pv) = 0 THEN [NoOut EXCEPT !.kind = "error", !.code = 2]
    ELSE IF show_all THEN [NoOut EXCEPT !.kind = "table", !.rows = pv]
    ELSE [NoOut EXCEPT !.kind = "headline", !.text = Headline(pv)]

\* Lines 240-272: sort, format, and print the table or the headline.
Report ==
    /\ pc = "collected"
    /\ pkg_vers' = SortedPkgVers(pkg_vers)
    /\ out' = Printed(pkg_vers', cli.show_all)
    /\ pc' = "done"
    /\ UNCHANGED <<sidevars, overtook, world, files, call, cli, distros, releases, tasks, tstate, rets>>

Next ==
    \/ SelectProfile
    \/ \E i \in 1..Len(tasks) : StartTask(i)
    \/ \E i \in 1..Len(tasks) : FinishTask(i)
    \/ Collect
    \/ Abort
    \/ Report

\* The command lines of the model: at most MaxArgs names, each with or
\* without a release.
MaxArgs == 2

Tokens ==
    {Token("arch", ""), Token("debian", "stretch"), Token("fedora-latest", ""),
     Token("freebsd", ""), Token("nixos", ""), Token("nixos", "x"),
     Token("bogus", ""), Token("bogus", "x")}

RECURSIVE SeqsUpTo(_, _)
SeqsUpTo(S, n) ==
    IF n = 0 THEN {<<>>}
    ELSE LET shorter == SeqsUpTo(S, n - 1)
         IN  shorter \cup {Append(q, x) : q \in shorter, x \in S}

AsOfDates == {20170315, 20170316, 20170420}

\* The three usages of the docstring: the headline, -a, and -l.
Clis ==
    {[distro_strs |-> ds, fast_only |-> f, show_all |-> a,
      list_distros |-> FALSE, as_of_date |-> t] :
        ds \in SeqsUpTo(Tokens, MaxArgs), f \in BOOLEAN, a \in BOOLEAN, t \in AsOfDates}
    \cup {[NoCli EXCEPT !.list_distros = TRUE, !.as_of_date = t] : t \in AsOfDates}

\* The remote answers wrongly on at most MaxBad of the URLs a run opens.
MaxBad == 1

\* The URLs the run of a command line may open.
TouchedBy(c) ==
    LET profiles == ProfilesAsOf(c.as_of_date)
        rel == IF profiles = <<>> \/ c.list_distros THEN <<>>
               ELSE Overridden(profiles[1].releases, c.distro_strs)
    IN  UNION {Touched(rel[i][1], rel[i][2]) :
                 i \in {j \in 1..Len(rel) : rel[j][1] \in Requested(c.distro_strs)}}

\* The answers a batch run meets on a URL that answers wrongly.
BadAnswers(url) ==
    CASE url.site \in {"archlinux", "debian", "ubuntu", "opensuse"} -> HtmlAnswers(url.site)
      [] url.site = "fedora" ->
            {NetErr, Json("24" :> Row(FALSE, <<>>) @@ "25" :> Row(TRUE, S_1_2_3))}
      [] url.site = "nixos" -> {NetErr, Gz("def", TRUE, S_1_2_3), Gz(PyNone, TRUE, S_1_2_3)}
      [] url.rev = "" -> ListingAnswers
      [] OTHER -> MakefileAnswers

RECURSIVE WorldsNear(_, _)
WorldsNear(us, n) ==
    IF n = 0 THEN {Nominal}
    ELSE LET nearer == WorldsNear(us, n - 1)
         IN  nearer \cup UNION {{Override(w, u :> a) : w \in nearer, a \in BadAnswers(u)} :
                                    u \in us}

Init ==
    /\ cli \in Clis
    /\ world \in WorldsNear(TouchedBy(cli), MaxBad)
    /\ files = NoFiles
    /\ call = NoCall
    /\ pc = "start"
    /\ distros = {}
    /\ releases = <<>>
    /\ tasks = <<>>
    /\ tstate = <<>>
    /\ rets = <<>>
    /\ pkg_vers = <<>>
    /\ out = NoOut
    /\ overtook = FALSE
    /\ NoSide

Spec == Init /\ [][Next]_vars

(***************************************************************************)
(* The version normalizer on its own: parse_semver on a text and fmt_ver  *)
(* on what it gives, fmt_ver on a tuple and parse_semver on what it gives. *)
(***************************************************************************)
\* The components of the version texts: plain, and with leading zeros.
VerParts ==
    {<<"0">>, <<"1">>, <<"7">>, <<"0", "1">>, <<"1", "0">>,
     <<"0", "0", "7">>, <<"1", "2">>}

\* What follows the three components in a text.
VerSuffixes == {<<>>, <<"-">>, <<".", "4">>, <<"x">>, <<" ">>}

VerStrings ==
    {a \o <<".">> \o b \o <<".">> \o c \o t :
        a \in VerParts, b \in VerParts, c \in VerParts, t \in VerSuffixes}

\* Texts RE_VER does not match.
NotVerStrings ==
    {<<>>, <<"1", ".", "2">>, <<"1", ".", ".", "3">>,
     <<"x", "1", ".", "2", ".", "3">>, <<"1", ".", "2", ".">>}

MaxNum == 11
VerTuples == {<<a, b, c>> : a \in 0..MaxNum, b \in 0..MaxNum, c \in 0..MaxNum}

InitSemver ==
    /\ world = Nominal
    /\ files = NoFiles
    /\ call = NoCall
    /\ NoMain
    /\ race = NoRace
    /\ scrape = NoScrape
    /\ matrix = NoMatrix
    /\ heap = NoHeap
    /\ \/ \E t \in VerStrings \cup NotVerStrings :
            semver = [NoSemver EXCEPT !.op = "text", !.s = t]
       \/ \E v \in VerTuples :
            semver = [NoSemver EXCEPT !.op = "tuple", !.v = v]

\* fmt_ver(parse_semver(s))
ParseThenFormat ==
    LET parsed == parse_semver(semver.s)
    IN  /\ semver.op = "text"
        /\ semver' = [semver EXCEPT
                        !.op = "parsed",
                        !.parsed = parsed,
                        !.text = IF parsed.exc = "none" THEN fmt_ver(parsed.v)
                                 ELSE <<>>]
        /\ UNCHANGED <<world, files, call, mainvars, race, scrape, matrix, heap>>

\* parse_semver(fmt_ver(v))
FormatThenParse ==
    LET text == fmt_ver(semver.v)
    IN  /\ semver.op = "tuple"
        /\ semver' = [semver EXCEPT
                        !.op = "formatted",
                        !.text = text,
                        !.parsed = parse_semver(text)]
        /\ UNCHANGED <<world, files, call, mainvars, race, scrape, matrix, heap>>

NextSemver == ParseThenFormat \/ FormatThenParse

SpecSemver == InitSemver /\ [][NextSemver]_vars

(***************************************************************************)
(* Runs of get_nixos that share the cache files, each going through its   *)
(* file and network operations one at a time, the index changing on the   *)
(* server meanwhile, a run possibly killed at any point.                   *)
(***************************************************************************)
MaxRuns == 2
Runs == 1..MaxRuns

\* What the server serves under each token.
BodyOf(token) == IF token = "abc" THEN S_1_2_3 ELSE S_1_10_0
Published == {Gz(t, TRUE, BodyOf(t)) : t \in {"abc", "def"}}
Serving(answer) == Override(Nominal, Url("nixos", "", "") :> answer)

\* A run: where it is, its last_etag, cur_etag, the body of the response it
\* holds, its json_bs_gz, and whether that came from the cache.
NewRun == [at |-> "start", last_etag |-> PyNone, cur_etag |-> PyNone,
           body |-> <<>>, json_bs_gz |-> <<>>, cached |-> FALSE]

InitRace ==
    /\ \E a \in Published : world = Serving(a)
    /\ files = NoFiles
    /\ call = NoCall
    /\ NoMain
    /\ semver = NoSemver
    /\ scrape = NoScrape
    /\ matrix = NoMatrix
    /\ heap = NoHeap
    /\ race = [r \in Runs |-> NewRun]

Step(r, run) ==
    /\ race' = [race EXCEPT ![r] = run]
    /\ UNCHANGED <<world, call, mainvars, semver, scrape, matrix, heap>>

\* Lines 409-412: last_etag = open(etag_path).read()...strip(), None when
\* the file cannot be read.
ReadEtag(r) ==
    /\ race[r].at = "start"
    /\ Step(r, [race[r] EXCEPT
                  !.at = "opened_etag",
                  !.last_etag = IF files.etag.there THEN files.etag.data ELSE PyNone])
    /\ UNCHANGED files

\* Lines 416-417: req = urlopen(URL); cur_etag = req.getheader('etag').
OpenIndex(r) ==
    LET req == urlopen(world, Url("nixos", "", ""))
    IN  /\ race[r].at = "opened_etag"
        /\ Step(r, [race[r] EXCEPT
                      !.at = "compare", !.cur_etag = req.etag, !.body = req.body])
        /\ UNCHANGED files

\* Lines 420-425: the payload file is read when the tokens are equal and
\* the file can be read.
ReadCache(r) ==
    /\ race[r].at = "compare"
    /\ IF UseCache(race[r].cur_etag, race[r].last_etag) /\ files.gz.there
       THEN Step(r, [race[r] EXCEPT
                       !.at = "parse", !.json_bs_gz = files.gz.data, !.cached = TRUE])
       ELSE Step(r, [race[r] EXCEPT !.at = "download"])
    /\ UNCHANGED files

\* Line 429: json_bs_gz = req.read().
Download(r) ==
    /\ race[r].at = "download"
    /\ Step(r, [race[r] EXCEPT !.at = "open_etag", !.json_bs_gz = race[r].body])
    /\ UNCHANGED files

\* Line 432: open(etag_path, 'wb') empties the file ...
TruncateEtag(r) ==
    /\ race[r].at = "open_etag"
    /\ files' = [files EXCEPT !.etag = File(TRUE, "")]
    /\ Step(r, [race[r] EXCEPT !.at = "write_etag"])

\* ... and .write(cur_etag.encode('utf-8')) fills it.
WriteEtag(r) ==
    /\ race[r].at = "write_etag"
    /\ files' = [files EXCEPT !.etag = File(TRUE, race[r].cur_etag)]
    /\ Step(r, [race[r] EXCEPT !.at = "open_gz"])

\* Line 433: open(bs_gz_path, 'wb') empties the file ...
TruncateGz(r) ==
    /\ race[r].at = "open_gz"
    /\ files' = [files EXCEPT !.gz = File(TRUE, <<>>)]
    /\ Step(r, [race[r] EXCEPT !.at = "write_gz"])

\* ... and .write(json_bs_gz) fills it.
WriteGz(r) ==
    /\ race[r].at = "write_gz"
    /\ files' = [files EXCEPT !.gz = File(TRUE, race[r].json_bs_gz)]
    /\ Step(r, [race[r] EXCEPT !.at = "parse"])

\* Lines 435-441: the payload is decompressed and parsed.
Parse(r) ==
    /\ race[r].at = "parse"
    /\ Step(r, [race[r] EXCEPT !.at = "returned"])
    /\ UNCHANGED files

\* The process of a run is killed.
Kill(r) ==
    /\ race[r].at \notin {"returned", "killed"}
    /\ Step(r, [race[r] EXCEPT !.at = "killed"])
    /\ UNCHANGED files

\* The server publishes another index.
Publish ==
    /\ \E a \in Published : world' = Serving(a)
    /\ world' # world
    /\ UNCHANGED <<files, call, mainvars, sidevars>>

NextRace ==
    \/ \E r \in Runs :
          \/ ReadEtag(r) \/ OpenIndex(r) \/ ReadCache(r) \/ Download(r)
          \/ TruncateEtag(r) \/ WriteEtag(r) \/ TruncateGz(r) \/ WriteGz(r)
          \/ Parse(r) \/ Kill(r)
    \/ Publish

SpecRace == InitRace /\ [][NextRace]_vars

(***************************************************************************)
(* get_scrape on any table of rules: the rules a, b and c, each with some *)
(* of the fields and possibly an inherit that names a rule, itself, an    *)
(* entry that is a function, or no entry at all.                           *)
(***************************************************************************)
RuleNames == {"a", "b", "c"}

\* The value rule n gives a field: every rule has values of its own.
FieldOf(n, k) ==
    CASE k = "url" -> UrlTemplate(n, n = "b")
      [] k = "xpath" -> (CASE n = "a" -> "//a/text()" [] n = "b" -> "//b/text()"
                           [] OTHER -> "//c/text()")
      [] k = "re" -> (CASE n = "a" -> "a (V" [] n = "b" -> "b (V" [] OTHER -> "c (V")

\* The fields a rule may hold, and what it may inherit from ("" for no
\* inherit, "zz" for a name the table does not have).
FieldSets == {{}, {"url"}, {"xpath", "re"}, {"url", "xpath", "re"}}
InheritTargets == {""} \cup RuleNames \cup {"f", "zz"}

RuleOf(n, ks, inherit) ==
    ScrapeRule([k \in ks \cup (IF inherit = "" THEN {} ELSE {"inherit"}) |->
                    IF k = "inherit" THEN inherit ELSE FieldOf(n, k)])

RulesOf(n) == {RuleOf(n, ks, inherit) : ks \in FieldSets, inherit \in InheritTargets}

Tables ==
    {[n \in RuleNames \cup {"f"} |->
        CASE n = "a" -> ra [] n = "b" -> rb [] n = "c" -> rc
          [] OTHER -> CustomResolver("get_fedora")] :
        ra \in RulesOf("a"), rb \in RulesOf("b"), rc \in RulesOf("c")}

\* What the page of the rule's URL holds for the rule's xpath and regex:
\* no node, a text the regex does not match, a match whose version group
\* is empty, a version, a text RE_VER does not match.
PageKinds == {"neterr", "nonode", "nomatch", "emptygroup", "version", "malformed"}

PageOf(kind, xpath, regex) ==
    CASE kind = "neterr" -> NetErr
      [] kind = "nonode" -> Html("", "", <<>>)
      [] kind = "nomatch" -> Html(xpath, "", <<>>)
      [] kind = "emptygroup" -> Html(xpath, regex, <<>>)
      [] kind = "version" -> Html(xpath, regex, S_1_2_3)
      [] kind = "malformed" -> Html(xpath, regex, <<"1", ".", "2">>)

\* The world in which every URL the rules can name serves such a page.
ScrapeWorld(kind, xpath, regex) ==
    [u \in {Url(n, rel, "") : n \in RuleNames, rel \in {"", "r1"}} |->
        PageOf(kind, xpath, regex)]

InitScrape ==
    /\ world = Nominal
    /\ files = NoFiles
    /\ call = NoCall
    /\ NoMain
    /\ semver = NoSemver
    /\ race = NoRace
    /\ matrix = NoMatrix
    /\ heap = NoHeap
    /\ \E T \in Tables : scrape = [op |-> "table", T |-> T]

\* get_scrape(distro, DISTROS[distro], source) with T for DISTROS.
Scrape(distro, source, kind) ==
    LET T == scrape.T
        walk == InheritWalk(T, T[distro].fields, MaxDepth)
        whole == walk.exc = "none" /\ {"xpath", "re"} \subseteq DOMAIN walk.defin
        w == IF whole THEN ScrapeWorld(kind, walk.defin["xpath"], walk.defin["re"])
             ELSE ScrapeWorld("nonode", "", "")
    IN  /\ scrape.op = "table"
        /\ whole \/ kind = "nonode"
        /\ world' = w
        /\ scrape' = [op |-> "called", T |-> T, distro |-> distro,
                      source |-> source, page |-> kind, walk |-> walk,
                      ret |-> get_scrape(T, distro, T[distro].fields, source,
                                         Env(w, files))]
        /\ UNCHANGED <<files, call, mainvars, semver, race, matrix, heap>>

NextScrape ==
    \E source \in {PyNone, "r1"} :
        \E kind \in PageKinds :
            Scrape("a", source, kind)

SpecScrape == InitScrape /\ [][NextScrape]_vars

(***************************************************************************)
(* test-matrix.py: main's loop over the Rust versions, the env entries    *)
(* and the matrix rows, and run_script on each row that applies.  A       *)
(* command is what it refers to; whether the shell command succeeds is up *)
(* to the environment.                                                     *)
(***************************************************************************)
MaxCmds == 2

\* A command names no variable ("") or the variable X.
Cmds == {"", "X"}
RECURSIVE ScriptsUpTo(_)
ScriptsUpTo(n) ==
    IF n = 0 THEN {<<>>}
    ELSE LET shorter == ScriptsUpTo(n - 1)
         IN  shorter \cup {Append(q, c) : q \in shorter, c \in Cmds}

\* translate_script gives one command at least.
Scripts == ScriptsUpTo(MaxCmds) \ {<<>>}

\* travis['env']: each entry defines X or does not; the environment of the
\* process does not.
EnvLists == {<<FALSE>>, <<TRUE>>, <<TRUE, FALSE>>}

\* travis['matrix']['include']: the 'rust' of each row, None when it has
\* none; the rows here have no 'env' of their own, so that cmd_env is the
\* env entry's.
IncludeLists == {<<>>, <<PyNone>>, <<"nightly">>, <<"nightly", PyNone>>}

RustVerLists == {<<>>, <<"stable">>, <<"stable", "nightly">>}

\* Line 63, chain([{}], matrix_includes): the rows the inner loop visits.
Rows(includes) == <<PyNone>> \o includes

\* Line 64: a row is skipped when its 'rust' is neither None nor rust_ver.
Skipped(row_rust, rust_ver) == row_rust \notin {PyNone, rust_ver}

InitMatrix ==
    /\ world = Nominal
    /\ files = NoFiles
    /\ call = NoCall
    /\ NoMain
    /\ semver = NoSemver
    /\ race = NoRace
    /\ scrape = NoScrape
    /\ heap = NoHeap
    /\ \E script \in Scripts, env \in EnvLists, includes \in IncludeLists,
          rust_vers \in RustVerLists :
          matrix = [at |-> "loop", script |-> script, env |-> env,
                    matrix_includes |-> includes, rust_vers |-> rust_vers,
                    v |-> 1, e |-> 1, r |-> 1, seq_id |-> 0,
                    k |-> 1, success |-> TRUE, executed |-> <<>>,
                    started |-> <<>>, results |-> <<>>]

MatrixStep(m) ==
    /\ matrix' = m
    /\ UNCHANGED <<world, files, call, mainvars, semver, race, scrape, heap>>

\* The loops of lines 59-63 move to the next row: the next row of the env
\* entry, else the next env entry, else the next Rust version, where
\* seq_id starts at 0 again.
Advanced(m) ==
    IF m.r < Len(Rows(m.matrix_includes)) THEN [m EXCEPT !.r = m.r + 1]
    ELSE IF m.e < Len(m.env) THEN [m EXCEPT !.r = 1, !.e = m.e + 1]
    ELSE [m EXCEPT !.r = 1, !.e = 1, !.v = m.v + 1, !.seq_id = 0]

InLoop == matrix.at = "loop" /\ matrix.v <= Len(matrix.rust_vers)

\* Lines 64-65: continue.
SkipRow ==
    /\ InLoop
    /\ Skipped(Rows(matrix.matrix_includes)[matrix.r], matrix.rust_vers[matrix.v])
    /\ MatrixStep(Advanced(matrix))

\* Lines 67-73 and 92-108: run_script is called and gets to its loop.
StartRun ==
    /\ InLoop
    /\ ~Skipped(Rows(matrix.matrix_includes)[matrix.r], matrix.rust_vers[matrix.v])
    /\ MatrixStep([matrix EXCEPT
                     !.at = "script", !.k = 1, !.success = TRUE, !.executed = <<>>,
                     !.started = Append(@, <<matrix.rust_vers[matrix.v], matrix.seq_id>>)])

\* Lines 98-100 and 111: sub_env looks the variable of the command up in
\* cmd_env, which has X when the env entry defines it.
SubEnvRaises(cmd, env_defines_X) == cmd = "X" /\ ~env_defines_X

\* Lines 110-125: the next command is substituted and run; a command that
\* fails breaks the loop, a variable that is not defined raises KeyError
\* out of run_script and main.
RunCommand ==
    /\ matrix.at = "script"
    /\ matrix.k <= Len(matrix.script)
    /\ IF SubEnvRaises(matrix.script[matrix.k], matrix.env[matrix.e])
       THEN MatrixStep([matrix EXCEPT !.at = "raised"])
       ELSE \E ok \in BOOLEAN :
              MatrixStep([matrix EXCEPT
                            !.executed = Append(@, [k |-> matrix.k, ok |-> ok]),
                            !.success = ok,
                            !.k = IF ok THEN matrix.k + 1 ELSE Len(matrix.script) + 1])

\* Lines 126-128 and 74-75: run_script returns success, main appends the
\* result and counts the run.
ReturnRun ==
    /\ matrix.at = "script"
    /\ matrix.k > Len(matrix.script)
    /\ MatrixStep(Advanced([matrix EXCEPT
                     !.at = "loop",
                     !.results = Append(@, <<matrix.rust_vers[matrix.v],
                                             matrix.seq_id, matrix.success>>),
                     !.seq_id = matrix.seq_id + 1]))

\* Lines 77-81: the loops are over, the results are printed.
PrintResults ==
    /\ matrix.at = "loop"
    /\ matrix.v > Len(matrix.rust_vers)
    /\ MatrixStep([matrix EXCEPT !.at = "done"])

NextMatrix == SkipRow \/ StartRun \/ RunCommand \/ ReturnRun \/ PrintResults

SpecMatrix == InitMatrix /\ [][NextMatrix]_vars

(***************************************************************************)
(* Successive resolutions against one table: get_dispatch is called on    *)
(* one entry after another, the table being whatever the calls before     *)
(* left of it.  The table is the one of the program or a table of the     *)
(* rules a and b with any inherit, the rule c, the function f and the     *)
(* alias s.                                                                *)
(***************************************************************************)
MaxCalls == 2

WholeRulesOf(n) ==
    {RuleOf(n, ks, inherit) :
        ks \in {{}, {"url", "xpath", "re"}}, inherit \in InheritTargets}

TablesOfTwo ==
    {[n \in RuleNames \cup {"f", "s"} |->
        CASE n = "a" -> ra [] n = "b" -> rb
          [] n = "c" -> RuleOf("c", {"url", "xpath", "re"}, "")
          [] n = "f" -> CustomResolver("get_fedora")
          [] OTHER -> Alias("a")] :
        ra \in WholeRulesOf("a"), rb \in WholeRulesOf("b")}

\* The arguments an entry of the table is resolved with.
HeapArgs(tab, distro) ==
    IF tab = DISTROS THEN ArgsOf(distro) ELSE {PyNone, "r1"}

InitHeap ==
    /\ world = Nominal
    /\ files = NoFiles
    /\ call = NoCall
    /\ NoMain
    /\ semver = NoSemver
    /\ race = NoRace
    /\ scrape = NoScrape
    /\ matrix = NoMatrix
    /\ \E T \in {DISTROS} \cup TablesOfTwo :
          heap = [at |-> "on", DISTROS0 |-> T, DISTROS |-> T,
                  resolved |-> <<>>, ret |-> NoCall.ret]

\* get_dispatch(distro, arg) on the table as it is now.
ResolveOn(distro, arg) ==
    LET ret == get_dispatch(heap.DISTROS, distro, arg, Env(world, files))
    IN  /\ heap.at = "on"
        /\ Len(heap.resolved) < MaxCalls
        /\ heap.ret.exc # "hang"
        /\ files' = ret.files
        /\ heap' = [heap EXCEPT
                      !.DISTROS = DistrosAfterDispatch(heap.DISTROS, distro),
                      !.resolved = Append(@, <<distro, arg>>),
                      !.ret = ret]
        /\ UNCHANGED <<world, call, mainvars, semver, race, scrape, matrix>>

NextHeap ==
    \E distro \in DOMAIN heap.DISTROS :
        \E arg \in HeapArgs(heap.DISTROS0, distro) :
            ResolveOn(distro, arg)

SpecHeap == InitHeap /\ [][NextHeap]_vars

(***************************************************************************)
(* Properties of one resolution                                            *)
(***************************************************************************)
Called == call.distro # ""

\* Every URL the call could open fails.
EveryFetchFails ==
    \A u \in Touched(call.distro, call.arg) : urlopen(world, u).kind = "neterr"

\* C1: get_dispatch on a table entry never raises: whichever path it takes
\* (custom resolver, alias, generic scrape) it returns a version, and when
\* the path failed with an exception, as it does when every fetch fails,
\* the version it returns is the sentinel (0,0,0).
C1_DispatchNeverRaises ==
    Called =>
        /\ call.ret.exc = "none"
        /\ Len(call.ret.v) = 3
        /\ call.ret.caught # "none" => call.ret.v = <<0, 0, 0>>
        /\ EveryFetchFails => call.ret.v = <<0, 0, 0>>

\* C1 happens: a generic scrape whose page lost its node, and a custom
\* resolver whose listing has no row, end in the sentinel.
C1_Witness ==
    /\ call.distro = "debian"
    /\ call.arg = "jessie"
    /\ call.ret.caught = "IndexError"
    /\ call.ret.v = <<0, 0, 0>>
    /\ call.ret.exc = "none"

\* The entry an alias chain of the table ends at.
RECURSIVE UltimateTarget(_)
UltimateTarget(d) ==
    IF DISTROS[d].kind = "alias" THEN UltimateTarget(DISTROS[d].target) ELSE d

\* C9: resolving an alias entry of the table terminates and gives the
\* version that resolving its ultimate non-alias target with the same
\* release argument gives.
C9_AliasSameAsTarget ==
    (Called /\ DISTROS[call.distro].kind = "alias") =>
        /\ call.ret.exc = "none"
        /\ call.ret.caught # "RecursionError"
        /\ call.ret.v =
              get_dispatch(DISTROS, UltimateTarget(call.distro), call.arg,
                           Env(world, call.before)).v

\* C9 happens: an alias of an inheriting rule resolved to a real version.
C9_Witness ==
    /\ call.distro = "ubuntu-latest"
    /\ call.arg = "xenial"
    /\ call.ret.v = <<1, 10, 0>>
    /\ call.ret.caught = "none"

TwoStepCall == Called /\ SiteOf(call.distro) \in {"freebsd", "openbsd"}

\* The listing URL of the two-step call.
ListingUrl ==
    Url(SiteOf(call.distro),
        IF SiteOf(call.distro) = "freebsd" THEN FormatArg(call.arg)
        ELSE ReplaceDots(call.arg), "")

\* C10: get_freebsd and get_openbsd fetch the listing first; the second
\* request asks for exactly the revision the listing shows for the Makefile;
\* the version comes from that revision's content only; when the listing
\* has no entry for the file, no file is requested and the resolver fails.
C10_TwoStepRevision ==
    TwoStepCall =>
        LET log == call.ret.log
            listing == urlopen(world, ListingUrl)
        IN  /\ Len(log) <= 2
            /\ Len(log) >= 1 => log[1] = ListingUrl
            /\ Len(log) = 2 =>
                  /\ listing.kind = "listing"
                  /\ listing.rev # ""
                  /\ log[2] = Url(ListingUrl.site, ListingUrl.rel, listing.rev)
            /\ call.ret.caught = "none" =>
                  /\ Len(log) = 2
                  /\ urlopen(world, log[2]).kind = "makefile"
                  /\ call.ret.v = parse_semver(urlopen(world, log[2]).ver).v
            /\ (call.arg # PyNone /\ listing.kind = "listing" /\ listing.rev = "") =>
                  /\ Len(log) = 1
                  /\ call.ret.caught = "IndexError"
                  /\ call.ret.v = <<0, 0, 0>>

\* C10 happens: the listing shows revision 42, revision 42 is requested and
\* its PORTVERSION 3.1.4 is the version, whatever revision 43 holds.
C10_Witness ==
    /\ call.distro = "freebsd"
    /\ call.arg = "2017Q1"
    /\ call.ret.log = <<Url("freebsd", "2017Q1", ""), Url("freebsd", "2017Q1", "42")>>
    /\ urlopen(world, Url("freebsd", "2017Q1", "43")) = Makefile(S_1_2_3)
    /\ call.ret.v = <<3, 1, 4>>

(***************************************************************************)
(* Properties of the cached resolver across calls                         *)
(***************************************************************************)
\* The index as the remote serves it during the last call.
Index == urlopen(world, Url("nixos", "", ""))

\* An earlier call stored a token and a payload.
Stored(f) == f.etag.there /\ f.etag.data # "" /\ f.gz.there

\* C5: after a call stored token T and payload P1, a call in which the
\* remote reports T reads no body and returns what P1 parses to (the
\* sentinel when P1 does not parse), leaving the files alone; a call in
\* which the remote reports another token reads the body and, the download
\* succeeding, stores the new token and the new payload.
C5_CacheAcrossCalls ==
    (Called /\ call.arg = ROLLING /\ Index.kind = "gz" /\ Stored(call.before)) =>
        /\ Index.etag = call.before.etag.data =>
              /\ call.ret.dl = 0
              /\ files = call.before
              /\ call.ret.v =
                    IF call.before.gz.data = <<>> THEN <<0, 0, 0>>
                    ELSE parse_semver(call.before.gz.data).v
        /\ (Index.etag \notin {call.before.etag.data, PyNone}) =>
              /\ call.ret.dl = 1
              /\ Index.bodyok =>
                    files = Files(File(TRUE, Index.etag), File(TRUE, Index.body))

\* C5 happens: the remote still reports "abc" but would serve another
\* body; the call returns the cached payload's version and reads no body.
C5_Witness ==
    /\ call.arg = ROLLING
    /\ call.before = Files(File(TRUE, "abc"), File(TRUE, S_1_2_3))
    /\ Index = Gz("abc", TRUE, S_1_10_0)
    /\ call.ret.dl = 0
    /\ call.ret.v = <<1, 2, 3>>
    /\ files = call.before

(***************************************************************************)
(* Properties of a batch run                                               *)
(***************************************************************************)
\* The tasks of the batch, and those whose resolution failed: it raised,
\* or get_dispatch swallowed what it raised.
Tasks == 1..Len(tasks)
Done(i) == tstate[i] = "done"
Failed(i) == Done(i) /\ (rets[i].exc # "none" \/ rets[i].caught # "none")

\* main is over: it returned, or an exception left it.
Over == pc \in {"done", "raised"}

\* main got to its sorted pkg_vers.
Sorted_pkg_vers == pc = "done" /\ out.kind \in {"table", "headline"}

\* a is a lower version than b, as 3-tuples of integers.
VerBefore(a, b) ==
    \/ a[1] < b[1]
    \/ a[1] = b[1] /\ a[2] < b[2]
    \/ a[1] = b[1] /\ a[2] = b[2] /\ a[3] < b[3]

\* C2: a batch run always completes and produces an answer: whatever
\* sources and name:release overrides are requested, no failure of one
\* source's resolution leaves the worker pool and aborts the run, and a
\* run that gets to its headline reports a version or "unknown".
C2_BatchAlwaysCompletes ==
    /\ pc # "raised"
    /\ \A i \in Tasks : Done(i) => rets[i].exc = "none"
    /\ (pc = "done" /\ out.kind = "headline") =>
          (out.text = Unknown \/ parse_semver(out.text).exc = "none")

\* C3: when the resolution of one source of a batch fails, the run reports
\* for every other source the version that source resolves to on its own;
\* only the failing source's entry is (0,0,0).
C3_FailureIsolation ==
    Over =>
        \A j \in Tasks : Failed(j) =>
            \A i \in Tasks \ {j} :
                LET alone == get_dispatch(DISTROS, tasks[i][1], tasks[i][2],
                                          Env(world, NoFiles))
                IN  alone.exc = "none" =>
                        <<tasks[i][1], fmt_ver(alone.v)>> \in Range(pkg_vers)

\* A task resolving nixos with a release that is not the rolling one.
NixosNotRolling(i) == tasks[i][1] = "nixos" /\ tasks[i][2] # ROLLING /\ Done(i)

\* C4: resolving nixos with a release argument other than the rolling
\* sentinel is a precondition violation that propagates out of
\* get_dispatch and aborts the run; it is not turned into (0,0,0).
C4_PreconditionIsLoud ==
    \A i \in Tasks : NixosNotRolling(i) =>
        /\ rets[i].exc = "AssertionError"
        /\ rets[i].caught = "none"
        /\ pc \notin {"collected", "done"}

\* C6: the final list is in ascending order of (version, source name),
\* versions compared as 3-tuples of integers and equal versions ordered by
\* name, and it holds what the tasks returned.
C6_SortedByVersionThenName ==
    Sorted_pkg_vers =>
        /\ \A i, j \in 1..Len(pkg_vers) : i < j =>
              LET vi == parse_semver(pkg_vers[i][2]).v
                  vj == parse_semver(pkg_vers[j][2]).v
              IN  \/ VerBefore(vi, vj)
                  \/ vi = vj /\ StrLess(pkg_vers[i][1], pkg_vers[j][1])
        /\ Len(pkg_vers) = Len(tasks)
        /\ Range(pkg_vers) = {<<tasks[i][1], fmt_ver(rets[i].v)>> : i \in Tasks}

\* C6 happens: a failed source comes first, 1.2.3 comes before 1.10.0, and
\* two sources with the same version are in the order of their names.
C6_Witness ==
    /\ Sorted_pkg_vers
    /\ pkg_vers[1][2] = S_0_0_0
    /\ \E i, j \in 1..Len(pkg_vers) :
          i < j /\ pkg_vers[i][2] = S_1_2_3 /\ pkg_vers[j][2] = S_1_10_0
    /\ \E i \in 1..(Len(pkg_vers) - 1) :
          /\ pkg_vers[i] = <<"debian", S_1_2_3>>
          /\ pkg_vers[i + 1] = <<"fedora", S_1_2_3>>

\* The versions the batch resolved that are not the sentinel.
Known == {rets[i].v : i \in Tasks} \ {<<0, 0, 0>>}

\* C7: without --all, the headline of a batch that is not empty is the
\* lowest version among the entries that are not (0,0,0), never the
\* sentinel, and "unknown" when every entry is the sentinel.
C7_HeadlineIsLowestKnown ==
    (pc = "done" /\ ~cli.show_all /\ tasks # <<>>) =>
        /\ out.kind = "headline"
        /\ out.text # S_0_0_0
        /\ IF Known = {} THEN out.text = Unknown
           ELSE \E m \in Known :
                  /\ \A v \in Known : ~VerBefore(v, m)
                  /\ out.text = fmt_ver(m)

\* C7 happens: one entry is the sentinel, the others are 1.10.0, 1.2.3 and
\* higher, and 1.2.3 is reported.
C7_Witness ==
    /\ pc = "done"
    /\ out.kind = "headline"
    /\ out.text = S_1_2_3
    /\ \E i \in Tasks : rets[i].v = <<0, 0, 0>> /\ rets[i].caught # "none"
    /\ \E i \in Tasks : rets[i].v = <<1, 10, 0>>

\* main built a batch result.
Produced ==
    \/ pc = "collected"
    \/ pc = "done" /\ out.kind \in {"table", "headline"}
    \/ pc = "done" /\ out.kind = "error" /\ out.code = 2

\* The names the command line requests: every entry of the table when it
\* names none.
Named == {cli.distro_strs[i].name : i \in 1..Len(cli.distro_strs)}
RequestedNames == IF Named = {} THEN DOMAIN DISTROS ELSE Named
PassesFilter(d) == ~(cli.fast_only /\ d \in SLOW_DISTROS)

\* The profile of the as-of date, and whether a name has a release: the
\* profile gives one, or the command line does.
InForce(p) ==
    /\ p.date <= cli.as_of_date
    /\ \A q \in Range(PROFILES) : q.date <= cli.as_of_date => q.date <= p.date
HasRelease(d) ==
    \/ \E p \in Range(PROFILES) : InForce(p) /\ d \in Keys(p.releases)
    \/ \E i \in 1..Len(cli.distro_strs) :
          cli.distro_strs[i].name = d /\ cli.distro_strs[i].rel # ""

ResultNames == {pkg_vers[i][1] : i \in 1..Len(pkg_vers)}

AllDigits(t) == t # <<>> /\ \A i \in 1..Len(t) : t[i] \in Digits

\* s starts with digits.digits.digits, the runs ending at i, j and k, and
\* the third run is not followed by a digit.
StartsWithVersion(s, i, j, k) ==
    /\ 1 <= i /\ i + 2 <= j /\ j + 2 <= k /\ k <= Len(s)
    /\ AllDigits(SubSeq(s, 1, i))
    /\ s[i + 1] = "."
    /\ AllDigits(SubSeq(s, i + 2, j))
    /\ s[j + 1] = "."
    /\ AllDigits(SubSeq(s, j + 2, k))
    /\ (k < Len(s) => s[k + 1] \notin Digits)

\* A string of digits without its leading zeros, one digit kept.
RECURSIVE Canonical(_)
Canonical(d) == IF Len(d) > 1 /\ Head(d) = "0" THEN Canonical(Tail(d)) ELSE d

\* C11: format(parse(s)) is s cut after its three numeric components, for
\* every s that starts with digits.digits.digits, components with leading
\* zeros included.
C11_FormatParseIsPrefix ==
    semver.op = "parsed" =>
        \A i, j, k \in 1..Len(semver.s) :
            StartsWithVersion(semver.s, i, j, k) =>
                /\ semver.parsed.exc = "none"
                /\ semver.text = SubSeq(semver.s, 1, k)

\* C11 as amended: format(parse(s)) is the three numeric components s
\* starts with, each written without its leading zeros; it is s cut after
\* the components exactly when no component has a leading zero.
C11_FormatParseIsCanonical ==
    semver.op = "parsed" =>
        \A i, j, k \in 1..Len(semver.s) :
            StartsWithVersion(semver.s, i, j, k) =>
                LET a == SubSeq(semver.s, 1, i)
                    b == SubSeq(semver.s, i + 2, j)
                    c == SubSeq(semver.s, j + 2, k)
                IN  /\ semver.parsed.exc = "none"
                    /\ semver.text =
                          Canonical(a) \o <<".">> \o Canonical(b) \o <<".">> \o Canonical(c)
                    /\ (semver.text = SubSeq(semver.s, 1, k)) <=>
                          (a = Canonical(a) /\ b = Canonical(b) /\ c = Canonical(c))

\* C11 happens: 01.10.007- has gone through parse_semver and fmt_ver.
C11_Witness ==
    /\ semver.op = "parsed"
    /\ semver.s = <<"0", "1", ".", "1", "0", ".", "0", "0", "7", "-">>
    /\ semver.text = <<"1", ".", "1", "0", ".", "7">>

\* C12: parse(format(v)) is v for every 3-tuple v of non-negative integers.
C12_ParseFormatIsIdentity ==
    semver.op = "formatted" =>
        /\ semver.parsed.exc = "none"
        /\ semver.parsed.v = semver.v

\* C12 happens: a tuple with a component of two digits, its components all
\* different, has gone through fmt_ver and parse_semver.
C12_Witness ==
    /\ semver.op = "formatted"
    /\ semver.v = <<1, 10, 0>>
    /\ semver.text = S_1_10_0

(***************************************************************************)
(* Properties of the selection of sources                                  *)
(***************************************************************************)
\* The names the command line gives a release of its own.
OverriddenNames ==
    {cli.distro_strs[i].name :
        i \in {j \in 1..Len(cli.distro_strs) : cli.distro_strs[j].rel # ""}}

NotOverridden(rel) == {da \in Range(rel) : da[1] \notin OverriddenNames}

\* C13: the profile used is the one with the latest date not more recent
\* than the as-of date; when no profile is that old the run ends with an
\* error, exit code 1, and dispatches no source.
C13_ProfileByDate ==
    pc # "start" =>
        IF \E p \in Range(PROFILES) : p.date <= cli.as_of_date
        THEN /\ ~(out.kind = "error" /\ out.code = 1)
             /\ \E p \in Range(PROFILES) :
                    /\ InForce(p)
                    /\ NotOverridden(releases) = NotOverridden(p.releases)
        ELSE /\ pc = "done"
             /\ out.kind = "error"
             /\ out.code = 1
             /\ tasks = <<>>
             /\ files = NoFiles

\* C13 happens: as of a date later than both profiles' dates, the run used
\* the later profile, the one with a release of freebsd.
C13_Witness ==
    /\ pc = "done"
    /\ cli.as_of_date > 20170414
    /\ Named = {}
    /\ <<"freebsd", "2017Q1">> \in Range(tasks)
    /\ out.kind = "headline"

\* The tasks of the slow sources, and the URLs the finished tasks opened.
SlowTasks == {i \in Tasks : tasks[i][1] \in SLOW_DISTROS}
Opened == UNION {Range(rets[i].log) : i \in {j \in Tasks : Done(j)}}
SlowUrls == UNION {Touched(d, ROLLING) : d \in SLOW_DISTROS}

\* C14: with --fast no slow source is submitted to get_dispatch, none of
\* its URLs is opened and it is not in the result, even when it is named on
\* the command line; without --fast a requested slow source is submitted,
\* and resolved by the time the batch is collected.
C14_FastOnlyFilter ==
    /\ cli.fast_only =>
          /\ SlowTasks = {}
          /\ Opened \cap SlowUrls = {}
          /\ files = NoFiles
          /\ ResultNames \cap SLOW_DISTROS = {}
    /\ (~cli.fast_only /\ pc \in {"pool", "collected", "raised"}) =>
          \A d \in SLOW_DISTROS \cap RequestedNames : \E i \in SlowTasks : tasks[i][1] = d
    /\ (~cli.fast_only /\ Produced) =>
          \A d \in SLOW_DISTROS \cap RequestedNames :
              /\ d \in ResultNames
              /\ \E i \in SlowTasks :
                    /\ tasks[i][1] = d
                    /\ Done(i)
                    /\ (tasks[i][2] = ROLLING => Range(rets[i].log) \cap SlowUrls # {})

\* C14 happens: nixos and arch are named with --fast, and the run ends
\* with arch alone in the result.
C14_Witness ==
    /\ pc = "done"
    /\ cli.fast_only
    /\ Named = {"nixos", "arch"}
    /\ ResultNames = {"arch"}
    /\ out.kind \in {"table", "headline"}

(***************************************************************************)
(* Properties of the cached resolver                                       *)
(***************************************************************************)
\* The call was get_nixos on the rolling release, and the remote answered.
NixosAnswered ==
    Called /\ call.distro = "nixos" /\ call.arg = ROLLING /\ Index.kind = "gz"

\* C15: get_nixos loads the payload on disk only when a token is stored on
\* disk and equals the token the server reports; with no token stored, the
\* server reporting one or not, it downloads the body and does not use a
\* payload file left on disk.
C15_CacheOnlyOnStoredToken ==
    NixosAnswered =>
        /\ call.ret.dl = 0 =>
              (call.before.etag.there /\ call.before.etag.data = Index.etag)
        /\ ~call.before.etag.there => call.ret.dl = 1

\* C16: for every interleaving of the runs of get_nixos on the same cache
\* files, and for a run killed between its writes, token and payload are
\* replaced together: whenever the stored token is T the stored payload is
\* the whole body served under T, and no run parses a cached payload of
\* another token than the one it matched.
C16_CacheConsistent ==
    /\ (race # NoRace /\ files.etag.there /\ files.etag.data \in {"abc", "def"}) =>
          (files.gz.there /\ files.gz.data = BodyOf(files.etag.data))
    /\ \A r \in DOMAIN race :
          (race[r].at \in {"parse", "returned"} /\ race[r].cached) =>
              race[r].json_bs_gz = BodyOf(race[r].cur_etag)

(***************************************************************************)
(* Properties of the generic scraper                                       *)
(***************************************************************************)
Scraped == scrape.op = "called"

\* C17: the inherit walk of get_scrape is capped at the size of the table:
\* get_scrape terminates for every table, one with a cyclic inherit chain
\* or a rule that inherits from itself included.
C17_WalkTerminates ==
    Scraped => (scrape.walk.exc # "hang" /\ scrape.ret.exc # "hang")

\* The fields of rule n and the rule it names as inherit.
FieldsIn(T, n) == T[n].fields
Inherits(T, n) == "inherit" \in DOMAIN FieldsIn(T, n)

\* The chain of inherits from n goes through rules only and ends, within
\* fuel steps, at a rule without inherit.
RECURSIVE ChainEnds(_, _, _)
ChainEnds(T, n, fuel) ==
    /\ n \in DOMAIN T
    /\ T[n].kind = "rule"
    /\ Inherits(T, n) => (fuel > 0 /\ ChainEnds(T, FieldsIn(T, n)["inherit"], fuel - 1))

\* The chain from n flattened by hand from its far end: the fields of the
\* parent's flattening, overridden by n's own.
RECURSIVE Flattened(_, _)
Flattened(T, n) ==
    LET own == [k \in DOMAIN FieldsIn(T, n) \ {"inherit"} |-> FieldsIn(T, n)[k]]
    IN  IF ~Inherits(T, n) THEN own
        ELSE LET far == Flattened(T, FieldsIn(T, n)["inherit"])
             IN  [k \in DOMAIN own \cup DOMAIN far |->
                    IF k \in DOMAIN own THEN own[k] ELSE far[k]]

\* C18: along a chain of inherits the fields get_scrape ends with are
\* those of the chain flattened by hand, the nearest rule that defines a
\* field giving its value, with no inherit field left; the URL opened is
\* the one of the nearest url.
C18_MergeIsFlattening ==
    (Scraped /\ ChainEnds(scrape.T, scrape.distro, Cardinality(RuleNames))) =>
        /\ scrape.walk.exc = "none"
        /\ "inherit" \notin DOMAIN scrape.walk.defin
        /\ scrape.walk.defin = Flattened(scrape.T, scrape.distro)
        /\ scrape.ret.log # <<>> =>
              scrape.ret.log[1].site = Flattened(scrape.T, scrape.distro)["url"].site

\* C18 happens: a inherits from b, which has a url of its own and inherits
\* from c, which has all the fields; the page of b's url is scraped with
\* c's xpath and regex.
C18_Witness ==
    /\ Scraped
    /\ scrape.T["a"] = RuleOf("a", {}, "b")
    /\ scrape.T["b"] = RuleOf("b", {"url"}, "c")
    /\ scrape.T["c"] = RuleOf("c", {"url", "xpath", "re"}, "")
    /\ scrape.source = "r1"
    /\ scrape.ret.log = <<Url("b", "r1", "")>>
    /\ scrape.ret.v = <<1, 2, 3>>

\* The call got to open the rule's URL and the server answered.
Fetched == Scraped /\ scrape.ret.log # <<>> /\ scrape.page # "neterr"

Alone(i) == get_dispatch(DISTROS, tasks[i][1], tasks[i][2], Env(world, NoFiles))

\* Task i comes before task j in the order of C6, alone giving what each
\* resolves to on its own.
AloneBefore(alone, i, j) ==
    \/ VerBefore(alone[i].v, alone[j].v)
    \/ alone[i].v = alone[j].v /\ StrLess(tasks[i][1], tasks[j][1])

\* The list is the one of the sources resolved on their own.
ListOfAlone(alone) ==
    /\ \A i \in Tasks : alone[i].exc = "none"
    /\ \A i \in Tasks :
          pkg_vers[1 + Cardinality({j \in Tasks : AloneBefore(alone, j, i)})]
              = <<tasks[i][1], fmt_ver(alone[i].v)>>

\* C20: for fixed requests and fixed remote answers the final sorted list
\* is the same whatever the order in which the pool's calls start and
\* finish: it is the list of the sources resolved one by one.
C20_OrderOfCompletionIrrelevant ==
    Sorted_pkg_vers =>
        /\ Len(pkg_vers) = Len(tasks)
        /\ ListOfAlone([i \in Tasks |-> Alone(i)])

\* C20 happens: a run in which a task finished before one submitted
\* earlier has printed its list.
C20_Witness ==
    /\ Sorted_pkg_vers
    /\ overtook
    /\ Len(pkg_vers) >= 3

(***************************************************************************)
(* Properties of the requests of one resolution                            *)
(***************************************************************************)
\* What the URL answers makes the step that opened it fail: the fetch
\* fails, the listing has no row for the Makefile, the Makefile has no
\* version line, the page has no node.
StepFails(u) ==
    LET a == urlopen(world, u)
    IN  \/ a.kind = "neterr"
        \/ a.kind = "listing" /\ a.rev = ""
        \/ a.kind = "makefile" /\ a.ver = <<>>
        \/ a.kind = "html" /\ a.x = ""

\* C21: the resolvers never retry: within one resolution each URL is
\* requested at most once, the index body is read at most once, and after
\* the first step that fails no further request is issued.
C21_NoRetry ==
    Called =>
        LET log == call.ret.log
        IN  /\ \A i, j \in 1..Len(log) : i < j => log[i] # log[j]
            /\ call.ret.dl <= 1
            /\ \A k \in 1..Len(log) : StepFails(log[k]) => k = Len(log)

\* C21 happens: the listing of freebsd has no row for the Makefile; the
\* resolution asked for the listing once, for nothing else, and gave the
\* sentinel.
C21_Witness ==
    /\ call.distro = "freebsd"
    /\ call.arg = "2017Q1"
    /\ urlopen(world, Url("freebsd", "2017Q1", "")) = Listing("")
    /\ call.ret.log = <<Url("freebsd", "2017Q1", "")>>
    /\ call.ret.caught = "IndexError"
    /\ call.ret.v = <<0, 0, 0>>


(***************************************************************************)
(* C22: run_script runs the commands of the script strictly in order and  *)
(* stops at the first one that fails; its success flag is true exactly    *)
(* when every command succeeded; and main records exactly one             *)
(* (rust_ver, seq_id, success) result per run, seq_id counting 0, 1, 2,   *)
(* ... within each Rust version.                                           *)
(***************************************************************************)
MatrixOn == matrix.at # "off"

\* The commands executed are the first n of the script, in order, and only
\* the last of them may have failed.
InOrderUntilFailure(executed) ==
    \A i \in 1..Len(executed) :
        /\ executed[i].k = i
        /\ ~executed[i].ok => i = Len(executed)

\* Every command of the script was executed and succeeded.
AllSucceeded(executed, script) ==
    /\ Len(executed) = Len(script)
    /\ \A i \in 1..Len(executed) : executed[i].ok

\* How many of the first n results are of the Rust version ver.
RECURSIVE CountOf(_, _, _)
CountOf(results, n, ver) ==
    IF n = 0 THEN 0
    ELSE CountOf(results, n - 1, ver) + (IF results[n][1] = ver THEN 1 ELSE 0)

C22_RunScriptInOrderOneResultEach ==
    MatrixOn =>
        /\ InOrderUntilFailure(matrix.executed)
        /\ matrix.at # "script" =>
              /\ Len(matrix.results) = Len(matrix.started)
              /\ \A i \in 1..Len(matrix.results) :
                    /\ matrix.results[i][1] = matrix.started[i][1]
                    /\ matrix.results[i][2] = matrix.started[i][2]
                    /\ matrix.results[i][2]
                         = CountOf(matrix.results, i - 1, matrix.results[i][1])
              /\ matrix.results # <<>> =>
                    (matrix.results[Len(matrix.results)][3]
                       <=> AllSucceeded(matrix.executed, matrix.script))

(***************************************************************************)
(* C23: resolution leaves the table unchanged.  After any sequence of     *)
(* get_dispatch / get_scrape calls, those that walk inherit chains and    *)
(* those that fail included, every entry of DISTROS has the fields it had *)
(* before, and so a later resolution of any rule sees the definition it   *)
(* would have seen on the table as it was.                                 *)
(***************************************************************************)
HeapOn == heap.at = "on"

\* The definition a resolution of the rule d sees on the table tab.
DefinitionSeen(tab, d) ==
    LET walk == InheritWalkOn(Store(tab, <<>>), TabRef(d), MaxDepth)
    IN  [exc |-> walk.exc, defin |-> Deref(walk.h, walk.defin)]

C23_TableUnchanged ==
    HeapOn =>
        /\ DOMAIN heap.DISTROS = DOMAIN heap.DISTROS0
        /\ \A d \in DOMAIN heap.DISTROS0 : heap.DISTROS[d] = heap.DISTROS0[d]
        /\ \A d \in DOMAIN heap.DISTROS0 :
              heap.DISTROS0[d].kind = "rule" =>
                 /\ DefinitionSeen(heap.DISTROS, d) = DefinitionSeen(heap.DISTROS0, d)
                 /\ DefinitionSeen(heap.DISTROS, d)
                       = InheritWalk(heap.DISTROS0, heap.DISTROS0[d].fields, MaxDepth)

\* Two calls were made on a table where a inherits from b and b from c: the
\* first walked the chain of a, the second one, of b, failed.
C23_Witness ==
    /\ HeapOn
    /\ Len(heap.resolved) = 2
    /\ heap.resolved[1][1] = "a"
    /\ heap.resolved[2][1] = "b"
    /\ "inherit" \in DOMAIN heap.DISTROS0["a"].fields
    /\ heap.DISTROS0["a"].fields["inherit"] = "b"
    /\ "inherit" \in DOMAIN heap.DISTROS0["b"].fields
    /\ heap.DISTROS0["b"].fields["inherit"] = "c"
    /\ DOMAIN heap.DISTROS0["a"].fields = {"inherit"}
    /\ DefinitionSeen(heap.DISTROS0, "a").exc = "none"
    /\ heap.ret.caught # "none"
=============================================================================
